---- MODULE Spec2Model ----
(***************************************************************************)
(* A model of src/app.py: the Streamlit front end of the Gemini File       *)
(* Search stores.  One script run of main() is a sequence of steps         *)
(* (refresh controls, store list, document list, page buttons, delete      *)
(* batch, upload loop, chat); between two runs the user acts on the        *)
(* widgets that the last run rendered.  The vendor API is the environment: *)
(* every remote call either raises or returns one of a few results.        *)
(***************************************************************************)
EXTENDS Integers, Sequences, FiniteSets, TLC

VARIABLES
  pc,              \* position of the script run; "idle" between two runs
  trigger,         \* the widget event this run was started by
  selected_store,  \* the row of the store selector (a store, or None)
  sel_rows,        \* the rows selected in the documents table
  uploader,        \* the files held by the file uploader widget
  docs_page,       \* st.session_state["docs_page_<store>"], where the key exists
  chat_history,    \* st.session_state["chat_history_<store>"]
  uploaded_files,  \* st.session_state["uploaded_files"]: the keys set to True
  stores_cache,    \* st.cache_data of list_file_search_stores
  docs_cache,      \* st.cache_data of list_documents
  tmp_files,       \* the temporary files that exist on disk
  run,             \* the locals of the script run
  shown,           \* what the front end shows: the widgets of the last rendering
  ev,              \* what the last step did (the remote calls, the messages)
  log,             \* the outcomes of the current delete batch or upload loop
  hist,            \* what has happened in the session so far
  steps,           \* the user actions taken so far
  peer             \* the list_documents call in flight in a second session

vars == <<pc, trigger, selected_store, sel_rows, uploader, docs_page,
          chat_history, uploaded_files, stores_cache, docs_cache, tmp_files,
          run, shown, ev, log, hist, steps, peer>>

----------------------------------------------------------------------------
(* Bounds of the model. *)

\* user actions in one behaviour
MaxSteps == 4
\* length of a store's chat history
MaxHistory == 4
\* files held by the uploader at once
MaxFiles == 2
\* temporary files left on disk
MaxTmp == 2

(* Program constants. *)

\* @st.cache_data(ttl=60)
TTL == 60
PAGE_SIZE == 20

\* None, where a token or a text is expected
None == "None"
\* None, where a store name is expected
NoStore == << >>
API_KEY == "key"

Stores == {<<"s", "1">>, <<"s", "2">>}
Tokens == {"t1", "t2"}
\* what the vendor's pager can yield for one page
RemotePages == {<< >>, <<"d1", "", "d2">>}
Files == {[name |-> <<"a">>, size |-> 1], [name |-> <<"a">>, size |-> 12]}
Prompts == {"p"}
\* response.text: a text, or None
Replies == {"r", None}
\* the seconds that pass at once between two user actions
TickSteps == {31}

Min(a, b) == IF a < b THEN a ELSE b

\* every age above the time-to-live behaves alike
AgeCap == TTL + 1

----------------------------------------------------------------------------
(* Python and session-state helpers. *)

\* seq[i] of a Python list: a negative index counts from the end
PyIndexOK(seq, i) == -Len(seq) <= i /\ i < Len(seq)
PyIndex(seq, i) == IF i >= 0 THEN seq[i + 1] ELSE seq[Len(seq) + i + 1]

\* d[k] = v of a dictionary
SetKey(d, k, v) == [x \in (DOMAIN d) \cup {k} |-> IF x = k THEN v ELSE d[x]]
\* the dictionary without the keys of ks
DelKeys(d, ks) == [x \in (DOMAIN d) \ ks |-> d[x]]
EmptyDict == [x \in {} |-> 0]

RECURSIVE DecStr(_)
\* str(n) of a natural number, as a sequence of characters
DecStr(n) ==
  LET digit == <<"0", "1", "2", "3", "4", "5", "6", "7", "8", "9">>[(n % 10) + 1]
  IN IF n < 10 THEN <<digit>> ELSE DecStr(n \div 10) \o <<digit>>

\* f"{selected_store}:{uploaded_file.name}:{uploaded_file.size}"
FileKey(store, f) == store \o <<":">> \o f.name \o <<":">> \o DecStr(f.size)

----------------------------------------------------------------------------
(* Response cache: st.cache_data(ttl=60). *)

CacheHit_ignore_ttl(cache, key) == key \in DOMAIN cache
\* an entry is served while it is younger than the time-to-live
CacheHit(cache, key) == key \in DOMAIN cache /\ cache[key].age < TTL

\* d seconds pass
AgeBy(cache, d) ==
  [k \in DOMAIN cache |-> [cache[k] EXCEPT !.age = Min(@ + d, AgeCap)]]

\* a remote mutation of store s: what the cache holds of s is now out of date
MarkStale(cache, s) ==
  [k \in DOMAIN cache |->
     IF k[1] = s THEN [cache[k] EXCEPT !.stale = TRUE] ELSE cache[k]]

\* no list_documents call is in flight in the second session
NoFetch ==
  [busy |-> FALSE, key |-> <<<< >>, "None">>,
   entry |-> [docs |-> << >>, next |-> "None", age |-> 0, stale |-> FALSE,
              echo |-> FALSE]]

\* the same for a result on its way to the cache
MarkStaleFetch(fetch, s) ==
  IF fetch.busy /\ fetch.key[1] = s
  THEN [fetch EXCEPT !.entry.stale = TRUE]
  ELSE fetch

\* the same for the store list, whose rows carry active_documents_count
MarkStaleStores(cache) ==
  [k \in DOMAIN cache |-> [cache[k] EXCEPT !.stale = TRUE]]

----------------------------------------------------------------------------
(* list_documents, without the cache. *)

Take(seq, n) == SubSeq(seq, 1, Min(Len(seq), n))

NextPageToken_no_echo_check(page_token, pager_token) == pager_token
\* a token equal to the requested one means no next page
NextPageToken(page_token, pager_token) ==
  IF pager_token = page_token THEN None ELSE pager_token

\* <<docs, next_page_token>>
ListDocumentsBody(page_token, pager_docs, pager_token) ==
  <<Take(pager_docs, PAGE_SIZE), NextPageToken(page_token, pager_token)>>

----------------------------------------------------------------------------
(* Pagination state. *)

InitPageState == [page_tokens |-> <<None>>, current_index |-> 0]

\* what get_docs_page_state returns for store s
PageStateOf(d, s) == IF s \in DOMAIN d THEN d[s] ELSE InitPageState

ResetDocsPagination_keep(d) == d
ResetDocsPagination_first_store(d) == DelKeys(d, {<<"s", "1">>})
\* reset_docs_pagination: every key that starts with "docs_page_" is removed
ResetDocsPagination(d) == DelKeys(d, DOMAIN d)

Retreat_pop(ps) ==
  [page_tokens |-> SubSeq(ps.page_tokens, 1, Len(ps.page_tokens) - 1),
   current_index |-> ps.current_index - 1]
\* page_state["current_index"] = current_index - 1
Retreat(ps) == [ps EXCEPT !.current_index = @ - 1]

\* if len(page_tokens) <= current_index + 1: page_tokens.append(next_page_token)
\* page_state["current_index"] = current_index + 1
Advance(ps, next_page_token) ==
  [page_tokens |-> IF Len(ps.page_tokens) <= ps.current_index + 1
                   THEN Append(ps.page_tokens, next_page_token)
                   ELSE ps.page_tokens,
   current_index |-> ps.current_index + 1]

----------------------------------------------------------------------------
(* The script run and the front end. *)

NoTrigger == [kind |-> "none", prompt |-> ""]
Click(kind) == [kind |-> kind, prompt |-> ""]
Prompt(p) == [kind |-> "prompt", prompt |-> p]

\* docs, next: what list_documents returned (echo: the pager repeated the
\* requested token); i: the loop index; tmp, done: tmp_path, operation.done
RunInit == [docs |-> << >>, next |-> None, echo |-> FALSE, i |-> 0, tmp |-> 0,
            done |-> FALSE]

\* the widgets of the page; the refresh button is always there
ShownNone == [stores |-> FALSE, docs |-> FALSE, prev |-> FALSE, next |-> FALSE,
              echo |-> FALSE, del |-> FALSE, upl |-> FALSE, reset |-> FALSE,
              chat |-> FALSE]

NoSel == [key |-> <<NoStore, 0>>, rows |-> << >>]
\* the rows a user can select in a page of three documents
RowChoices == {<< >>, <<1>>, <<0, 1, 2>>}

\* what a step did: op, whether it was a remote call, and up to three values
\* (a, b, c) that depend on op and are filed under it
EvC(op, remote, a, b, c) ==
  [op |-> op, remote |-> remote, data |-> (op :> [a |-> a, b |-> b, c |-> c])]
Ev(op, remote, a, b) == EvC(op, remote, a, b, None)
NoEv == Ev("none", FALSE, None, None)

ev_a == ev.data[ev.op].a
ev_b == ev.data[ev.op].b
ev_c == ev.data[ev.op].c

\* the last page move: "next", or "next_prev" for a retreat right after an
\* advance, with the page state before the advance and the tokens after it
NoNav == [op |-> "none", store |-> NoStore, before |-> InitPageState,
          mid |-> << >>]

\* dirty: the stores mutated since their page state was last read;
\* succeeded: the (store, file) combinations uploaded; nav: the last page move;
\* failed: the combinations whose upload failed in an earlier run, since the
\* user last changed the files of the uploader
HistInit == [dirty |-> {}, succeeded |-> {}, nav |-> NoNav, failed |-> {}]

Init ==
  /\ pc = "refresh"
  /\ trigger = NoTrigger
  /\ selected_store = NoStore
  /\ sel_rows = NoSel
  /\ uploader = << >>
  /\ docs_page = EmptyDict
  /\ chat_history = [s \in Stores |-> << >>]
  /\ uploaded_files = {}
  /\ stores_cache = EmptyDict
  /\ docs_cache = EmptyDict
  /\ tmp_files = {}
  /\ run = RunInit
  /\ shown = ShownNone
  /\ ev = NoEv
  /\ log = << >>
  /\ hist = HistInit
  /\ steps = 0
  /\ peer = NoFetch

\* a widget event starts a script run from the top of main()
StartRunFrom(trig, bound, h) ==
  /\ pc = "idle"
  /\ steps < bound
  /\ steps' = steps + 1
  /\ pc' = "refresh"
  /\ trigger' = trig
  /\ run' = RunInit
  /\ shown' = ShownNone
  /\ ev' = NoEv
  /\ log' = << >>
  /\ hist' = [h EXCEPT !.nav = IF trig.kind = "prev" THEN @ ELSE NoNav]
  /\ UNCHANGED peer

StartRunWithin(trig, bound) == StartRunFrom(trig, bound, hist)

StartRun(trig) == StartRunWithin(trig, MaxSteps)

\* st.rerun(): the run ends here and the script starts again, no widget event
Rerun ==
  /\ pc' = "refresh"
  /\ trigger' = NoTrigger
  /\ run' = RunInit
  /\ shown' = ShownNone
  /\ log' = << >>

\* the script ends (or stops on an uncaught exception): the page as rendered
EndRun ==
  /\ pc' = "idle"
  /\ trigger' = NoTrigger
  /\ run' = RunInit

----------------------------------------------------------------------------
(* The user. *)

ClickRefresh ==
  /\ StartRun(Click("refresh"))
  /\ UNCHANGED <<selected_store, sel_rows, uploader, docs_page, chat_history,
                 uploaded_files, stores_cache, docs_cache, tmp_files>>

SelectStoreIn(S) ==
  \E s \in S :
    /\ shown.stores
    /\ s # selected_store
    /\ selected_store' = s
    /\ StartRun(NoTrigger)
    /\ UNCHANGED <<sel_rows, uploader, docs_page, chat_history, uploaded_files,
                   stores_cache, docs_cache, tmp_files>>

\* a row of the store table is selected, or the selection is removed
SelectStore == SelectStoreIn(Stores \cup {NoStore})

\* the same, with one store only
SelectFirstStore == SelectStoreIn({<<"s", "1">>, NoStore})

SelectRows ==
  \E rows \in RowChoices :
    /\ shown.docs
    /\ rows # sel_rows.rows
    /\ sel_rows' = [sel_rows EXCEPT !.rows = rows]
    /\ StartRun(NoTrigger)
    /\ UNCHANGED <<selected_store, uploader, docs_page, chat_history,
                   uploaded_files, stores_cache, docs_cache, tmp_files>>

\* a retreat may be the one event after the last: an advance over tokens that
\* are already recorded can then be followed by a retreat
ClickPrev ==
  /\ shown.docs /\ shown.prev
  /\ StartRunWithin(Click("prev"), MaxSteps + 1)
  /\ UNCHANGED <<selected_store, sel_rows, uploader, docs_page, chat_history,
                 uploaded_files, stores_cache, docs_cache, tmp_files>>

ClickNext ==
  /\ shown.docs /\ shown.next
  /\ StartRun(Click("next"))
  /\ UNCHANGED <<selected_store, sel_rows, uploader, docs_page, chat_history,
                 uploaded_files, stores_cache, docs_cache, tmp_files>>

ClickDelete ==
  /\ shown.del
  /\ StartRun(Click("delete"))
  /\ UNCHANGED <<selected_store, sel_rows, uploader, docs_page, chat_history,
                 uploaded_files, stores_cache, docs_cache, tmp_files>>

DropFilesUpTo(most) ==
  \E fs \in UNION {[1..n -> Files] : n \in 0..most} :
    /\ shown.upl
    /\ fs # uploader
    /\ uploader' = fs
    /\ StartRunFrom(NoTrigger, MaxSteps, [hist EXCEPT !.failed = {}])
    /\ UNCHANGED <<selected_store, sel_rows, docs_page, chat_history,
                   uploaded_files, stores_cache, docs_cache, tmp_files>>

DropFiles == DropFilesUpTo(MaxFiles)

\* the user drops one file, or removes the one held
DropOneFile == DropFilesUpTo(1)

ClickChatReset ==
  /\ shown.reset
  /\ StartRun(Click("reset"))
  /\ UNCHANGED <<selected_store, sel_rows, uploader, docs_page, chat_history,
                 uploaded_files, stores_cache, docs_cache, tmp_files>>

SubmitPrompt ==
  \E p \in Prompts :
    /\ shown.chat
    /\ Len(chat_history[selected_store]) + 2 <= MaxHistory
    /\ StartRun(Prompt(p))
    /\ UNCHANGED <<selected_store, sel_rows, uploader, docs_page, chat_history,
                   uploaded_files, stores_cache, docs_cache, tmp_files>>

\* time passes between two runs
Tick ==
  \E d \in TickSteps :
    /\ pc = "idle"
    /\ stores_cache' = AgeBy(stores_cache, d)
    /\ docs_cache' = AgeBy(docs_cache, d)
    /\ UNCHANGED <<pc, trigger, selected_store, sel_rows, uploader, docs_page,
                   chat_history, uploaded_files, tmp_files, run, shown, ev, log,
                   hist, steps, peer>>

----------------------------------------------------------------------------
(* main(): refresh controls and the store list. *)

\* render_refresh_controls
RefreshControls ==
  /\ pc = "refresh"
  /\ pc' = "stores"
  /\ IF trigger.kind = "refresh"
     THEN /\ stores_cache' = EmptyDict
          /\ docs_cache' = EmptyDict
          /\ docs_page' = ResetDocsPagination(docs_page)
          /\ ev' = Ev("refresh", FALSE, None, None)
     ELSE UNCHANGED <<stores_cache, docs_cache, docs_page, ev>>
  /\ UNCHANGED <<trigger, selected_store, sel_rows, uploader, chat_history,
                 uploaded_files, tmp_files, run, shown, log, hist, steps, peer>>

\* main() after load_stores returned the list: the selector, then the sections
AfterStores(stores) ==
  IF stores = {}
  THEN \* st.info, return: the run is over and no widget was rendered
       /\ EndRun
       /\ selected_store' = NoStore
       /\ sel_rows' = NoSel
       /\ uploader' = << >>
       /\ UNCHANGED shown
  ELSE /\ shown' = [shown EXCEPT !.stores = TRUE]
       /\ pc' = IF selected_store # NoStore THEN "docs" ELSE "chat"
       /\ UNCHANGED <<trigger, selected_store, sel_rows, uploader, run>>

\* load_stores: the list comes from the cache
LoadStoresHit ==
  /\ pc = "stores"
  /\ CacheHit(stores_cache, API_KEY)
  /\ ev' = EvC("list_stores", FALSE, API_KEY, stores_cache[API_KEY],
               stores_cache[API_KEY].age)
  /\ AfterStores(stores_cache[API_KEY].val)
  /\ UNCHANGED <<docs_page, chat_history, uploaded_files, stores_cache,
                 docs_cache, tmp_files, log, hist, steps, peer>>

\* load_stores: the remote call returns a list, which is cached
LoadStoresFetch ==
  \E stores \in {Stores, {}} :
    /\ pc = "stores"
    /\ ~CacheHit(stores_cache, API_KEY)
    /\ stores_cache' = SetKey(stores_cache, API_KEY,
                               [val |-> stores, age |-> 0, stale |-> FALSE])
    /\ ev' = EvC("list_stores", TRUE, API_KEY,
                 [val |-> stores, age |-> 0, stale |-> FALSE],
                 IF API_KEY \in DOMAIN stores_cache
                 THEN stores_cache[API_KEY].age ELSE -1)
    /\ AfterStores(stores)
    /\ UNCHANGED <<docs_page, chat_history, uploaded_files, docs_cache,
                   tmp_files, log, hist, steps, peer>>

\* load_stores: the remote call raises; st.error, st.stop
LoadStoresFail ==
  /\ pc = "stores"
  /\ ~CacheHit(stores_cache, API_KEY)
  /\ ev' = Ev("list_stores_failed", TRUE, API_KEY, None)
  /\ EndRun
  /\ UNCHANGED <<selected_store, sel_rows, uploader, docs_page, chat_history,
                 uploaded_files, stores_cache, docs_cache, tmp_files, shown, log, hist, steps, peer>>

----------------------------------------------------------------------------
(* render_documents_section: the page of the selected store. *)

\* the page state is read: the store's completed mutations have been seen
Seen(h, s) == [h EXCEPT !.dirty = @ \ {s}]

\* page_tokens[current_index] raises IndexError: the run stops
ListDocsIndexError ==
  LET ps == PageStateOf(docs_page, selected_store) IN
  /\ pc = "docs"
  /\ ~PyIndexOK(ps.page_tokens, ps.current_index)
  /\ docs_page' = SetKey(docs_page, selected_store, ps)
  /\ hist' = Seen(hist, selected_store)
  /\ ev' = Ev("index_error", FALSE, selected_store, ps.current_index)
  /\ EndRun
  /\ UNCHANGED <<selected_store, sel_rows, uploader, chat_history,
                 uploaded_files, stores_cache, docs_cache, tmp_files, shown, log, steps, peer>>

\* list_documents: the page comes from the cache
ListDocsHit ==
  LET ps == PageStateOf(docs_page, selected_store) IN
  /\ pc = "docs"
  /\ PyIndexOK(ps.page_tokens, ps.current_index)
  /\ LET key == <<selected_store, PyIndex(ps.page_tokens, ps.current_index)>> IN
     /\ CacheHit(docs_cache, key)
     /\ run' = [run EXCEPT !.docs = docs_cache[key].docs,
                           !.next = docs_cache[key].next,
                           !.echo = docs_cache[key].echo]
     /\ ev' = EvC("list_documents", FALSE, key, docs_cache[key],
                  docs_cache[key].age)
  /\ docs_page' = SetKey(docs_page, selected_store, ps)
  /\ hist' = Seen(hist, selected_store)
  /\ pc' = "buttons"
  /\ UNCHANGED <<trigger, selected_store, sel_rows, uploader, chat_history,
                 uploaded_files, stores_cache, docs_cache, tmp_files, shown,
                 log, steps, peer>>

\* list_documents: the remote call returns a page, which is cached
ListDocsFetch ==
  \E pager_docs \in RemotePages, pager_token \in Tokens \cup {None} :
    LET ps == PageStateOf(docs_page, selected_store) IN
    /\ pc = "docs"
    /\ PyIndexOK(ps.page_tokens, ps.current_index)
    /\ LET page_token == PyIndex(ps.page_tokens, ps.current_index)
           key == <<selected_store, page_token>>
           res == ListDocumentsBody(page_token, pager_docs, pager_token)
           entry == [docs |-> res[1], next |-> res[2], age |-> 0,
                     stale |-> FALSE, echo |-> pager_token = page_token]
       IN /\ ~CacheHit(docs_cache, key)
          /\ docs_cache' = SetKey(docs_cache, key, entry)
          /\ run' = [run EXCEPT !.docs = res[1], !.next = res[2],
                                !.echo = entry.echo]
          /\ ev' = EvC("list_documents", TRUE, key, entry,
                       IF key \in DOMAIN docs_cache THEN docs_cache[key].age
                       ELSE -1)
    /\ docs_page' = SetKey(docs_page, selected_store, ps)
    /\ hist' = Seen(hist, selected_store)
    /\ pc' = "buttons"
    /\ UNCHANGED <<trigger, selected_store, sel_rows, uploader, chat_history,
                   uploaded_files, stores_cache, tmp_files, shown, log, steps, peer>>

CacheAfterFailure_empty_list(cache, key) ==
  SetKey(cache, key, [docs |-> << >>, next |-> None, age |-> 0,
                      stale |-> FALSE, echo |-> FALSE])
\* a call that raises stores nothing
CacheAfterFailure(cache, key) == cache

\* list_documents: the remote call raises; st.error, an empty page
ListDocsFail ==
  LET ps == PageStateOf(docs_page, selected_store) IN
  /\ pc = "docs"
  /\ PyIndexOK(ps.page_tokens, ps.current_index)
  /\ LET key == <<selected_store, PyIndex(ps.page_tokens, ps.current_index)>> IN
     /\ ~CacheHit(docs_cache, key)
     /\ docs_cache' = CacheAfterFailure(docs_cache, key)
     /\ ev' = Ev("list_documents_failed", TRUE, key, None)
  /\ run' = [run EXCEPT !.docs = << >>, !.next = None]
  /\ docs_page' = SetKey(docs_page, selected_store, ps)
  /\ hist' = Seen(hist, selected_store)
  /\ pc' = "buttons"
  /\ UNCHANGED <<trigger, selected_store, sel_rows, uploader, chat_history,
                 uploaded_files, stores_cache, tmp_files, shown,
                 log, steps, peer>>

\* the page state of the selected store, as the section read it
PageState == docs_page[selected_store]

\* the selection of the table with key docs_selector_<store>_<current_index>
SelectedRows ==
  IF sel_rows.key = <<selected_store, PageState.current_index>>
  THEN sel_rows.rows ELSE << >>

Rendered == [key |-> <<selected_store, PageState.current_index>>,
             rows |-> SelectedRows]

\* no document: st.info, and neither table nor buttons
DocsEmpty ==
  /\ pc = "buttons"
  /\ run.docs = << >>
  /\ sel_rows' = NoSel
  /\ pc' = "upload"
  /\ UNCHANGED <<trigger, selected_store, uploader, docs_page, chat_history,
                 uploaded_files, stores_cache, docs_cache, tmp_files, run,
                 shown, ev, log, hist, steps, peer>>

\* the previous-page button returned True
ButtonPrev ==
  /\ pc = "buttons"
  /\ run.docs # << >>
  /\ trigger.kind = "prev"
  /\ docs_page' = SetKey(docs_page, selected_store, Retreat(PageState))
  /\ sel_rows' = Rendered
  /\ ev' = Ev("prev", FALSE, selected_store, PageState)
  /\ hist' = [hist EXCEPT !.nav =
               IF @.op = "next" /\ @.store = selected_store
               THEN [@ EXCEPT !.op = "next_prev"] ELSE NoNav]
  /\ Rerun
  /\ UNCHANGED <<selected_store, uploader, chat_history, uploaded_files,
                 stores_cache, docs_cache, tmp_files, steps, peer>>

\* the next-page button returned True
ButtonNext ==
  /\ pc = "buttons"
  /\ run.docs # << >>
  /\ trigger.kind = "next"
  /\ docs_page' = SetKey(docs_page, selected_store, Advance(PageState, run.next))
  /\ sel_rows' = Rendered
  /\ ev' = Ev("next", FALSE, selected_store, PageState)
  /\ hist' = [hist EXCEPT !.nav =
               [op |-> "next", store |-> selected_store, before |-> PageState,
                mid |-> Advance(PageState, run.next).page_tokens]]
  /\ Rerun
  /\ UNCHANGED <<selected_store, uploader, chat_history, uploaded_files,
                 stores_cache, docs_cache, tmp_files, steps, peer>>

\* rows are selected and the delete button returned True: the batch starts
DeleteStart ==
  /\ pc = "buttons"
  /\ run.docs # << >>
  /\ trigger.kind = "delete"
  /\ SelectedRows # << >>
  /\ sel_rows' = Rendered
  /\ run' = [run EXCEPT !.i = 0]
  /\ pc' = "delete"
  /\ UNCHANGED <<trigger, selected_store, uploader, docs_page, chat_history,
                 uploaded_files, stores_cache, docs_cache, tmp_files, shown,
                 ev, log, hist, steps, peer>>

\* the table and the buttons are rendered and no button returned True; a click
\* made on an earlier rendering may meet a button that is now disabled, and
\* the front end may then drop it
DocsShown ==
  /\ pc = "buttons"
  /\ run.docs # << >>
  /\ trigger.kind = "prev" => PageState.current_index = 0
  /\ trigger.kind = "next" => run.next = None
  /\ ~(trigger.kind = "delete" /\ SelectedRows # << >>)
  /\ sel_rows' = Rendered
  /\ shown' = [shown EXCEPT !.docs = TRUE,
                            !.prev = (PageState.current_index # 0),
                            !.next = (run.next # None),
                            !.echo = run.echo,
                            !.del = (SelectedRows # << >>)]
  /\ pc' = "upload"
  /\ UNCHANGED <<trigger, selected_store, uploader, docs_page, chat_history,
                 uploaded_files, stores_cache, docs_cache, tmp_files, run, ev,
                 log, hist, steps, peer>>

----------------------------------------------------------------------------
(* The delete batch: for idx in selected_rows. *)

\* the document name of the row the loop is at (every page has three rows)
DocName == run.docs[sel_rows.rows[run.i + 1] + 1]

\* list_documents.clear() after the delete batch
InvalidateAfterDelete(cache) == EmptyDict

AfterDeleteFailure_abort(i, n) == n
\* except Exception: st.error, and the loop goes on with the next row
AfterDeleteFailure(i, n) == i + 1

\* if not doc_name: continue
DeleteSkip ==
  /\ pc = "delete"
  /\ run.i < Len(sel_rows.rows)
  /\ DocName = ""
  /\ run' = [run EXCEPT !.i = @ + 1]
  /\ UNCHANGED <<pc, trigger, selected_store, sel_rows, uploader, docs_page,
                 chat_history, uploaded_files, stores_cache, docs_cache,
                 tmp_files, shown, ev, log, hist, steps, peer>>

InsideDeleteLoop_clear(cache) == EmptyDict
\* the body of the loop calls neither list_documents.clear() nor a reset
InsideDeleteLoop(cache) == cache

\* documents.delete returns; st.toast
DeleteOk ==
  /\ pc = "delete"
  /\ run.i < Len(sel_rows.rows)
  /\ DocName # ""
  /\ docs_cache' = InsideDeleteLoop(MarkStale(docs_cache, selected_store))
  /\ stores_cache' = MarkStaleStores(stores_cache)
  /\ peer' = MarkStaleFetch(peer, selected_store)
  /\ log' = Append(log, [doc |-> DocName, row |-> run.i, ok |-> TRUE])
  /\ ev' = Ev("delete", TRUE, DocName, TRUE)
  /\ run' = [run EXCEPT !.i = @ + 1]
  /\ UNCHANGED <<pc, trigger, selected_store, sel_rows, uploader, docs_page,
                 chat_history, uploaded_files, tmp_files, shown, hist, steps>>

\* documents.delete raises; st.error
DeleteFail ==
  /\ pc = "delete"
  /\ run.i < Len(sel_rows.rows)
  /\ DocName # ""
  /\ log' = Append(log, [doc |-> DocName, row |-> run.i, ok |-> FALSE])
  /\ ev' = Ev("delete", TRUE, DocName, FALSE)
  /\ run' = [run EXCEPT !.i = AfterDeleteFailure(@, Len(sel_rows.rows))]
  /\ UNCHANGED <<pc, trigger, selected_store, sel_rows, uploader, docs_page,
                 chat_history, uploaded_files, stores_cache, docs_cache,
                 tmp_files, shown, hist, steps, peer>>

\* after the loop: list_documents.clear(), the page state reset, st.rerun()
DeleteDone ==
  /\ pc = "delete"
  /\ run.i = Len(sel_rows.rows)
  /\ docs_cache' = InvalidateAfterDelete(docs_cache)
  /\ docs_page' = SetKey(docs_page, selected_store,
                         [PageState EXCEPT !.page_tokens = <<None>>,
                                           !.current_index = 0])
  /\ hist' = [hist EXCEPT !.dirty = @ \cup {selected_store}]
  /\ ev' = EvC("delete_done", FALSE, selected_store, log, PageState)
  /\ Rerun
  /\ UNCHANGED <<selected_store, sel_rows, uploader, chat_history,
                 uploaded_files, stores_cache, tmp_files, steps, peer>>

----------------------------------------------------------------------------
(* render_upload_section and upload_document_to_store. *)

\* the file the loop is at, and the (store, file) combination it makes
File == uploader[run.i + 1]
Combo == <<selected_store, File>>

MarkProcessed_forget(processed, file_key) == processed
\* processed[file_key] = True
MarkProcessed(processed, file_key) == processed \cup {file_key}

\* the name NamedTemporaryFile gives the new file: one not in use
TmpPath == CHOOSE n \in 1..(MaxTmp + 1) : n \notin tmp_files

\* an exception of tmp.write leaves the with block before the try: no os.remove
RemoveAfterStaging(files, path) == files

\* finally: os.remove(tmp_path)
RemoveFinally(files, path) == files \ {path}

\* list_documents.clear() after a successful upload
InvalidateAfterUpload(cache) == EmptyDict

\* the file was handled: the loop goes on with the next one
NextFile(outcome) ==
  /\ run' = [run EXCEPT !.i = @ + 1, !.tmp = 0, !.done = FALSE]
  /\ hist' = [hist EXCEPT !.succeeded = @ \cup (IF outcome = "ok" THEN {Combo} ELSE {}),
                          !.dirty = @ \cup (IF outcome = "ok" THEN {selected_store} ELSE {})]
  /\ log' = Append(log, [file |-> File, outcome |-> outcome])
  /\ pc' = "upload"

\* if processed.get(file_key): st.info, continue
UploadSkip ==
  /\ pc = "upload"
  /\ run.i < Len(uploader)
  /\ FileKey(selected_store, File) \in uploaded_files
  /\ ev' = Ev("upload_skip", FALSE, Combo, None)
  /\ NextFile("already")
  /\ UNCHANGED <<trigger, selected_store, sel_rows, uploader, docs_page,
                 chat_history, uploaded_files, stores_cache, docs_cache,
                 tmp_files, shown, steps, peer>>

\* the file is not marked: upload_document_to_store is called
UploadBegin ==
  /\ pc = "upload"
  /\ run.i < Len(uploader)
  /\ FileKey(selected_store, File) \notin uploaded_files
  /\ ev' = Ev("upload_begin", FALSE, Combo, None)
  /\ pc' = "stage"
  /\ UNCHANGED <<trigger, selected_store, sel_rows, uploader, docs_page,
                 chat_history, uploaded_files, stores_cache, docs_cache,
                 tmp_files, run, shown, log, hist, steps, peer>>

\* the combinations for which this run reached the except branch
FailedInRun ==
  {<<selected_store, log[i].file>> :
     i \in {j \in 1..Len(log) : log[j].outcome = "error"}}

\* the loop is over (or no file is held): the section is rendered
UploadSectionEnd ==
  /\ pc = "upload"
  /\ run.i = Len(uploader)
  /\ shown' = [shown EXCEPT !.upl = TRUE]
  /\ hist' = [hist EXCEPT !.failed = @ \cup FailedInRun]
  /\ pc' = "chat"
  /\ UNCHANGED <<trigger, selected_store, sel_rows, uploader, docs_page,
                 chat_history, uploaded_files, stores_cache, docs_cache,
                 tmp_files, run, ev, log, steps, peer>>

\* NamedTemporaryFile(delete=False) and tmp.write: the bytes are staged
StageOk ==
  /\ pc = "stage"
  /\ tmp_files' = tmp_files \cup {TmpPath}
  /\ run' = [run EXCEPT !.tmp = TmpPath]
  /\ pc' = "submit"
  /\ UNCHANGED <<trigger, selected_store, sel_rows, uploader, docs_page,
                 chat_history, uploaded_files, stores_cache, docs_cache, shown,
                 ev, log, hist, steps, peer>>

\* the file is created and tmp.write (or getbuffer) raises
StageFail ==
  /\ pc = "stage"
  /\ Cardinality(tmp_files) < MaxTmp
  /\ tmp_files' = RemoveAfterStaging(tmp_files \cup {TmpPath}, TmpPath)
  /\ ev' = Ev("upload_failed", FALSE, Combo, TmpPath)
  /\ NextFile("error")
  /\ UNCHANGED <<trigger, selected_store, sel_rows, uploader, docs_page,
                 chat_history, uploaded_files, stores_cache, docs_cache, shown,
                 steps, peer>>

\* upload_to_file_search_store returns the operation handle
SubmitOk ==
  \E done \in BOOLEAN :
    /\ pc = "submit"
    /\ run' = [run EXCEPT !.done = done]
    /\ ev' = Ev("upload_to_store", TRUE, Combo, run.tmp)
    /\ pc' = "poll"
    /\ UNCHANGED <<trigger, selected_store, sel_rows, uploader, docs_page,
                   chat_history, uploaded_files, stores_cache, docs_cache,
                   tmp_files, shown, log, hist, steps, peer>>

\* upload_to_file_search_store raises
SubmitFail ==
  /\ pc = "submit"
  /\ tmp_files' = RemoveFinally(tmp_files, run.tmp)
  /\ ev' = Ev("upload_failed", TRUE, Combo, run.tmp)
  /\ NextFile("error")
  /\ UNCHANGED <<trigger, selected_store, sel_rows, uploader, docs_page,
                 chat_history, uploaded_files, stores_cache, docs_cache, shown,
                 steps, peer>>

LoopEnds_at_once(done) == TRUE
\* while not operation.done: the loop ends when the handle reports done
LoopEnds(done) == done

\* while not operation.done: time.sleep(2); operation = client.operations.get
PollAgain ==
  \E done \in BOOLEAN :
    /\ pc = "poll"
    /\ ~LoopEnds(run.done)
    /\ run' = [run EXCEPT !.done = done]
    /\ ev' = Ev("operations_get", TRUE, Combo, run.tmp)
    /\ UNCHANGED <<pc, trigger, selected_store, sel_rows, uploader, docs_page,
                   chat_history, uploaded_files, stores_cache, docs_cache,
                   tmp_files, shown, log, hist, steps, peer>>

\* client.operations.get raises
PollFail ==
  /\ pc = "poll"
  /\ ~LoopEnds(run.done)
  /\ tmp_files' = RemoveFinally(tmp_files, run.tmp)
  /\ ev' = Ev("upload_failed", TRUE, Combo, run.tmp)
  /\ NextFile("error")
  /\ UNCHANGED <<trigger, selected_store, sel_rows, uploader, docs_page,
                 chat_history, uploaded_files, stores_cache, docs_cache, shown,
                 steps, peer>>

\* the operation is done: the upload returns, and the caller marks the file,
\* clears the document cache and resets the pagination
UploadDone ==
  /\ pc = "poll"
  /\ LoopEnds(run.done)
  /\ tmp_files' = RemoveFinally(tmp_files, run.tmp)
  /\ uploaded_files' = MarkProcessed(uploaded_files,
                                     FileKey(selected_store, File))
  /\ docs_cache' = InvalidateAfterUpload(MarkStale(docs_cache, selected_store))
  /\ stores_cache' = MarkStaleStores(stores_cache)
  /\ peer' = MarkStaleFetch(peer, selected_store)
  /\ docs_page' = ResetDocsPagination(docs_page)
  /\ ev' = EvC("upload_ok", FALSE, Combo, run.tmp,
               PageStateOf(docs_page, selected_store)
                 @@ [others |-> DelKeys(docs_page, {selected_store})])
  /\ NextFile("ok")
  /\ UNCHANGED <<trigger, selected_store, sel_rows, uploader, chat_history,
                 shown, steps>>

----------------------------------------------------------------------------
(* render_chat and run_query. *)

History == chat_history[selected_store]

UserMsg(text) == [role |-> "user", text |-> text]
ModelMsg(text) == [role |-> "model", text |-> text]

\* history.pop()
Pop(history) == SubSeq(history, 1, Len(history) - 1)

AppendReply_twice(history, result) ==
  Append(Append(history, ModelMsg(result)), ModelMsg(result))
\* history.append({"role": "model", "text": result})
AppendReply(history, result) == Append(history, ModelMsg(result))

Contents_without_oldest(history) ==
  [i \in 1..(Len(history) - 1) |->
     [role |-> history[i + 1].role, parts |-> <<[text |-> history[i + 1].text]>>]]
\* run_query: contents = [Content(role, parts=[Part(text)]) for msg in history]
Contents(history) ==
  [i \in 1..Len(history) |->
     [role |-> history[i].role, parts |-> <<[text |-> history[i].text]>>]]

\* the widgets of the chat section: the reset button only with a history
ChatShown ==
  [shown EXCEPT !.reset = (selected_store # NoStore /\ History # << >>),
                !.chat = (selected_store # NoStore)]

\* the reset button returned True: history.clear(), st.rerun()
ChatReset ==
  /\ pc = "chat"
  /\ selected_store # NoStore
  /\ History # << >>
  /\ trigger.kind = "reset"
  /\ chat_history' = [chat_history EXCEPT ![selected_store] = << >>]
  /\ ev' = Ev("chat_reset", FALSE, selected_store, None)
  /\ Rerun
  /\ UNCHANGED <<selected_store, sel_rows, uploader, docs_page, uploaded_files,
                 stores_cache, docs_cache, tmp_files, hist, steps, peer>>

\* a prompt was submitted: the user message is appended
ChatPrompt ==
  /\ pc = "chat"
  /\ selected_store # NoStore
  /\ trigger.kind = "prompt"
  /\ chat_history' = [chat_history EXCEPT
                        ![selected_store] = Append(@, UserMsg(trigger.prompt))]
  /\ shown' = ChatShown
  /\ ev' = Ev("prompt", FALSE, History, trigger.prompt)
  /\ pc' = "query"
  /\ UNCHANGED <<trigger, selected_store, sel_rows, uploader, docs_page,
                 uploaded_files, stores_cache, docs_cache, tmp_files, run, log,
                 hist, steps, peer>>

\* no prompt: the script ends; a widget that was not rendered loses its state
ChatEnd ==
  /\ pc = "chat"
  /\ trigger.kind # "prompt"
  /\ ~(trigger.kind = "reset" /\ selected_store # NoStore /\ History # << >>)
  /\ shown' = ChatShown
  /\ IF selected_store = NoStore
     THEN sel_rows' = NoSel /\ uploader' = << >>
     ELSE UNCHANGED <<sel_rows, uploader>>
  /\ EndRun
  /\ ev' = NoEv
  /\ log' = << >>
  /\ UNCHANGED <<selected_store, docs_page, chat_history, uploaded_files,
                 stores_cache, docs_cache, tmp_files, hist, steps, peer>>

\* an exception while the prompt is shown, before the try: the run stops
QueryShowFails ==
  /\ pc = "query"
  /\ ev' = Ev("query_stopped", FALSE, ev_a, ev_b)
  /\ EndRun
  /\ UNCHANGED <<selected_store, sel_rows, uploader, docs_page, chat_history,
                 uploaded_files, stores_cache, docs_cache, tmp_files, shown, log, hist, steps, peer>>

\* run_query raises: st.error, history.pop()
QueryRaises ==
  /\ pc = "query"
  /\ chat_history' = [chat_history EXCEPT ![selected_store] = Pop(@)]
  /\ ev' = EvC("query_failed", TRUE, ev_a, ev_b, Contents(History))
  /\ EndRun
  /\ UNCHANGED <<selected_store, sel_rows, uploader, docs_page, uploaded_files,
                 stores_cache, docs_cache, tmp_files, shown, log, hist,
                 steps, peer>>

\* run_query returns response.text; the reply is appended and written
QueryReplies ==
  \E result \in Replies :
    /\ pc = "query"
    /\ chat_history' = [chat_history EXCEPT
                          ![selected_store] = AppendReply(@, result)]
    /\ ev' = EvC("query_ok", TRUE, ev_a, [prompt |-> ev_b, written |-> result],
                   Contents(History))
    /\ EndRun
    /\ UNCHANGED <<selected_store, sel_rows, uploader, docs_page,
                   uploaded_files, stores_cache, docs_cache, tmp_files, shown, log, hist, steps, peer>>

\* run_query returns, the reply is appended, st.write raises: history.pop()
QueryWriteFails ==
  \E result \in Replies :
    /\ pc = "query"
    /\ chat_history' = [chat_history EXCEPT
                          ![selected_store] = Pop(AppendReply(@, result))]
    /\ ev' = EvC("query_failed", TRUE, ev_a, ev_b, Contents(History))
    /\ EndRun
    /\ UNCHANGED <<selected_store, sel_rows, uploader, docs_page,
                   uploaded_files, stores_cache, docs_cache, tmp_files, shown, log, hist, steps, peer>>

----------------------------------------------------------------------------
(* A second session of the same server process: its script thread shares *)
(* st.cache_data with the first and calls list_documents for the first   *)
(* page of a store.                                                      *)

\* the entry is missing or expired: the remote call is made and returns
PeerFetchBegins ==
  \E s \in Stores, pager_docs \in RemotePages, pager_token \in Tokens \cup {None} :
    LET key == <<s, None>>
        res == ListDocumentsBody(None, pager_docs, pager_token)
    IN /\ ~peer.busy
       /\ ~CacheHit(docs_cache, key)
       /\ peer' = [busy |-> TRUE, key |-> key,
                   entry |-> [docs |-> res[1], next |-> res[2], age |-> 0,
                              stale |-> FALSE, echo |-> pager_token = None]]
       /\ UNCHANGED <<pc, trigger, selected_store, sel_rows, uploader,
                      docs_page, chat_history, uploaded_files, stores_cache,
                      docs_cache, tmp_files, run, shown, ev, log, hist, steps>>

\* the result is stored in the cache, whatever was cleared in between
PeerFetchEnds ==
  /\ peer.busy
  /\ docs_cache' = SetKey(docs_cache, peer.key, peer.entry)
  /\ peer' = NoFetch
  /\ UNCHANGED <<pc, trigger, selected_store, sel_rows, uploader, docs_page,
                 chat_history, uploaded_files, stores_cache, tmp_files, run,
                 shown, ev, log, hist, steps>>

\* the second session's call raises: nothing is stored
PeerFetchFails ==
  /\ peer.busy
  /\ peer' = NoFetch
  /\ UNCHANGED <<pc, trigger, selected_store, sel_rows, uploader, docs_page,
                 chat_history, uploaded_files, stores_cache, docs_cache,
                 tmp_files, run, shown, ev, log, hist, steps>>

Peer == PeerFetchBegins \/ PeerFetchEnds \/ PeerFetchFails

----------------------------------------------------------------------------

User ==
  \/ ClickRefresh \/ SelectStore \/ SelectRows \/ ClickPrev \/ ClickNext
  \/ ClickDelete \/ DropFiles \/ ClickChatReset \/ SubmitPrompt \/ Tick

\* main() down to the documents section and its table
Listing ==
  \/ RefreshControls \/ LoadStoresHit \/ LoadStoresFetch \/ LoadStoresFail
  \/ ListDocsHit \/ ListDocsFetch \/ ListDocsFail \/ DocsEmpty \/ DocsShown

Paging == ButtonPrev \/ ButtonNext

DeleteBatch == DeleteStart \/ DeleteSkip \/ DeleteOk \/ DeleteFail \/ DeleteDone

Upload ==
  \/ UploadSkip \/ UploadBegin \/ StageOk \/ StageFail \/ SubmitOk
  \/ SubmitFail \/ PollAgain \/ PollFail \/ UploadDone

Chat ==
  \/ ChatReset \/ ChatPrompt \/ QueryShowFails \/ QueryRaises \/ QueryReplies
  \/ QueryWriteFails

Script ==
  \/ Listing \/ ListDocsIndexError \/ Paging \/ DeleteBatch \/ Upload
  \/ UploadSectionEnd \/ Chat \/ ChatEnd

\* every session
Next == User \/ Script \/ Peer

Spec == Init /\ [][Next]_vars

\* the sessions in which the user selects a store and chats
NextChat ==
  \/ SelectStore \/ SubmitPrompt \/ ClickChatReset
  \/ Listing \/ UploadSectionEnd \/ Chat \/ ChatEnd

SpecChat == Init /\ [][NextChat]_vars

\* the sessions in which the user drops files on one store and refreshes
NextUpload ==
  \/ SelectFirstStore \/ DropFiles \/ ClickRefresh
  \/ Listing \/ Upload \/ UploadSectionEnd \/ ChatEnd

SpecUpload == Init /\ [][NextUpload]_vars

\* the same sessions, in which the script thread keeps running and the vendor
\* does not answer "not done" for ever: a poll that finds the handle not done
\* again changes nothing, so an endless wait is the run standing still at the
\* loop, which weak fairness of the upload steps excludes
SpecUploadFair == SpecUpload /\ WF_<<pc, run>>(Upload)

\* the sessions in which the user pages through one store
NextPages ==
  \/ SelectFirstStore \/ ClickPrev \/ ClickNext \/ ClickRefresh \/ Tick
  \/ Listing \/ Paging \/ UploadSectionEnd \/ ChatEnd

SpecPages == Init /\ [][NextPages]_vars

\* the sessions in which the user pages forward, uploads, deletes, refreshes
NextMutate ==
  \/ SelectFirstStore \/ ClickNext \/ SelectRows \/ ClickDelete \/ DropFiles
  \/ ClickRefresh
  \/ Listing \/ ButtonNext \/ DeleteBatch \/ Upload \/ UploadSectionEnd
  \/ ChatEnd

SpecMutate == Init /\ [][NextMutate]_vars

\* the sessions in which the user pages through one store and uploads: the
\* page of the run that uploaded stays on the screen with its buttons
NextPagesUpload ==
  \/ SelectFirstStore \/ ClickPrev \/ ClickNext \/ DropFiles
  \/ Listing \/ ListDocsIndexError \/ Paging \/ Upload \/ UploadSectionEnd
  \/ ChatEnd

SpecPagesUpload == Init /\ [][NextPagesUpload]_vars

\* the sessions in which the user pages forward in one store and drops a file
\* on another
NextStoresUpload ==
  \/ SelectStore \/ ClickNext \/ DropOneFile
  \/ Listing \/ ButtonNext \/ Upload \/ UploadSectionEnd \/ ChatEnd

SpecStoresUpload == Init /\ [][NextStoresUpload]_vars

\* the sessions in which the user drops a file on one store while a second
\* session lists documents
NextShared ==
  \/ SelectFirstStore \/ DropOneFile \/ ClickRefresh
  \/ Listing \/ Upload \/ UploadSectionEnd \/ ChatEnd
  \/ Peer

SpecShared == Init /\ [][NextShared]_vars

----------------------------------------------------------------------------
(* Properties. *)

IsPrefix(p, q) == Len(p) <= Len(q) /\ SubSeq(q, 1, Len(p)) = p

\* C1: after a successful upload into a store and after a delete batch on a
\* store, the page state that the next read of that store returns is
\* {page_tokens: [None], current_index: 0}, whatever it was before.
C1_ResetAfterMutation ==
  /\ \A s \in hist.dirty : PageStateOf(docs_page, s) = InitPageState
  /\ ev.op \in {"upload_ok", "delete_done"} => selected_store \in hist.dirty

\* an upload succeeded while the store was on its second page
C1_Witness ==
  /\ ev.op = "upload_ok"
  /\ ev_c.current_index = 1
  /\ Len(ev_c.page_tokens) = 2
  /\ selected_store \in hist.dirty

\* a delete batch ended while the store was on its second page
C1_WitnessDelete ==
  /\ ev.op = "delete_done"
  /\ ev_c.current_index = 1
  /\ selected_store \in hist.dirty

\* C2: a query whose handling fails leaves the store's history as it was
\* before the query: the one user message it appended is removed.
C2_FailedQueryRestoresHistory ==
  ev.op \in {"query_failed", "query_stopped"} =>
    chat_history[selected_store] = ev_a

\* C3: a successful query appends exactly two messages to the store's history,
\* the user message with the prompt and then the model message, and the reply
\* written to the page is the text of that model message.
C3_SuccessfulQueryAppendsTwo ==
  ev.op = "query_ok" =>
    LET h == chat_history[selected_store] IN
    /\ Len(h) = Len(ev_a) + 2
    /\ SubSeq(h, 1, Len(ev_a)) = ev_a
    /\ h[Len(h) - 1] = [role |-> "user", text |-> ev_b.prompt]
    /\ h[Len(h)].role = "model"
    /\ h[Len(h)].text = ev_b.written

\* the second exchange of a store succeeded
C3_Witness == ev.op = "query_ok" /\ Len(ev_a) = 2 /\ ev_b.written = "r"

\* C4: when upload_document_to_store has returned or raised, the temporary
\* file it created no longer exists.
C4_TempFileRemoved ==
  /\ ev.op \in {"upload_ok", "upload_failed"} => ev_b \notin tmp_files
  /\ pc \notin {"submit", "poll"} => tmp_files = {}

CurrentKey ==
  LET ps == PageStateOf(docs_page, selected_store)
  IN <<selected_store, PyIndex(ps.page_tokens, ps.current_index)>>

\* C6: for list_file_search_stores and list_documents, per argument tuple: a
\* call while the entry is younger than 60 seconds returns the cached value
\* and makes no remote call; a call when the entry is older than 60 seconds, or
\* when there is none, makes a remote call; clear() empties the cache, so the
\* calls of a refresh run are remote whatever the age of the entries was.
C6_CacheTimeToLive ==
  [][ /\ (pc = "refresh" /\ trigger.kind = "refresh")
           => stores_cache' = EmptyDict /\ docs_cache' = EmptyDict
      /\ (pc \in {"stores", "docs"} /\ trigger.kind = "refresh") => ev'.remote
      /\ pc = "stores" =>
           IF API_KEY \in DOMAIN stores_cache /\ stores_cache[API_KEY].age < TTL
           THEN /\ ~ev'.remote
                /\ ev_b' = stores_cache[API_KEY]
                /\ stores_cache' = stores_cache
                /\ shown'.stores = (stores_cache[API_KEY].val # {})
           ELSE ev'.remote
      /\ pc = "docs" =>
           IF CurrentKey \in DOMAIN docs_cache /\ docs_cache[CurrentKey].age < TTL
           THEN /\ ~ev'.remote
                /\ ev_b' = docs_cache[CurrentKey]
                /\ docs_cache' = docs_cache
                /\ run'.docs = docs_cache[CurrentKey].docs
                /\ run'.next = docs_cache[CurrentKey].next
           ELSE ev'.remote
    ]_vars

\* a document page older than 60 seconds is fetched again
C6_Witness ==
  ev.op = "list_documents" /\ ev.remote /\ ev_c > TTL /\ ev_b.age = 0

\* a document page of 31 seconds is served from the cache
C6_WitnessHit ==
  ev.op = "list_documents" /\ ~ev.remote /\ ev_b.age = 31

\* the store list of 31 seconds is served from the cache
C6_WitnessStores ==
  ev.op = "list_stores" /\ ~ev.remote /\ ev_b.age = 31

\* after the refresh button the document page is fetched
C6_WitnessClear ==
  trigger.kind = "refresh" /\ ev.op = "list_documents" /\ ev.remote

\* C7: after a refresh, a successful upload and a successful delete, no list
\* fetched before the mutation is served from the cache: a list that comes from
\* the cache was fetched after the last mutation.
C7_NoStaleListServed ==
  (ev.op \in {"list_stores", "list_documents"} /\ ~ev.remote) => ~ev_b.stale

\* what holds of the document pages alone: the document cache is empty after
\* each of the three operations, and no page fetched before a mutation of its
\* store is served
DocumentPagesFresh ==
  /\ ev.op \in {"refresh", "upload_ok", "delete_done"} => docs_cache = EmptyDict
  /\ (ev.op = "list_documents" /\ ~ev.remote) => ~ev_b.stale

C9_AdvanceRetreatIdentity ==
  hist.nav.op = "next_prev" =>
    PageStateOf(docs_page, hist.nav.store) = hist.nav.before

\* C9 as amended: an advance followed at once by a retreat gives back the
\* index; the tokens are those of before when the advance found the next token
\* recorded, and else those of before with the one token the advance appended;
\* the retreat changes no token.
C9_AdvanceRetreat ==
  hist.nav.op = "next_prev" =>
    LET ps == PageStateOf(docs_page, hist.nav.store)
        before == hist.nav.before
    IN /\ ps.current_index = before.current_index
       /\ ps.page_tokens = hist.nav.mid
       /\ IsPrefix(before.page_tokens, ps.page_tokens)
       /\ IF Len(before.page_tokens) > before.current_index + 1
          THEN ps.page_tokens = before.page_tokens
          ELSE Len(ps.page_tokens) = Len(before.page_tokens) + 1

\* the advance appended a token and the retreat is done
C9_Witness ==
  /\ hist.nav.op = "next_prev"
  /\ pc = "idle"
  /\ Len(PageStateOf(docs_page, hist.nav.store).page_tokens)
       = Len(hist.nav.before.page_tokens) + 1

\* the advance found the token recorded and the retreat is done
C9_WitnessRecorded ==
  /\ hist.nav.op = "next_prev"
  /\ pc = "idle"
  /\ PageStateOf(docs_page, hist.nav.store) = hist.nav.before

\* the positions, among the first n selected rows, of the documents with a name
NamedRows(n) == {k \in 1..n : run.docs[sel_rows.rows[k] + 1] # ""}

\* C10: in a delete batch every selected document that has a name gets its own
\* delete call and its own reported outcome, in the order of the selection,
\* whether or not the calls before it failed.
C10_DeleteBatchIndependent ==
  pc = "delete" =>
    /\ run.i <= Len(sel_rows.rows)
    /\ Len(log) = Cardinality(NamedRows(run.i))
    /\ \A j \in 1..Len(log) :
         /\ log[j].row + 1 \in NamedRows(run.i)
         /\ log[j].doc = run.docs[sel_rows.rows[log[j].row + 1] + 1]
         /\ \A k \in 1..Len(log) : j < k => log[j].row < log[k].row

\* three rows were selected: the first delete failed, the row without a name
\* was passed over, the last delete succeeded
C10_Witness ==
  /\ pc = "delete"
  /\ run.i = Len(sel_rows.rows)
  /\ Len(sel_rows.rows) = 3
  /\ Len(log) = 2
  /\ ~log[1].ok
  /\ log[2].ok

\* C11: in a delete batch the document cache is cleared and the store's page
\* state is reset by one step only, the one that ends the batch after the last
\* selected row; no step between two delete attempts clears or resets.
C11_InvalidateOncePerBatch ==
  [][ /\ (pc = "delete" /\ pc' = "delete") =>
            /\ DOMAIN docs_cache' = DOMAIN docs_cache
            /\ docs_page' = docs_page
      /\ (pc = "delete" /\ pc' # "delete") =>
            /\ run.i = Len(sel_rows.rows)
            /\ docs_cache # EmptyDict
            /\ docs_cache' = EmptyDict
            /\ PageStateOf(docs_page', selected_store) = InitPageState
            /\ ev'.op = "delete_done"
      /\ (pc # "delete" /\ ev'.op = "delete_done") => ev' = ev
    ]_vars

\* a batch of two attempts, one failed and one succeeded, has ended on the
\* second page of the store
C11_Witness ==
  /\ ev.op = "delete_done"
  /\ Len(ev_b) = 2
  /\ ~ev_b[1].ok
  /\ ev_b[2].ok
  /\ ev_c.current_index = 1
  /\ docs_cache = EmptyDict

\* the keys a document page can be cached under
DocKeys == Stores \X (Tokens \cup {None})

\* C12: a list call that raises stores nothing: the cache is as before and
\* holds no live entry for the arguments, the page states read as before, and
\* an entry comes to life only by a remote fetch that returned, so the next
\* call with these arguments is a remote one.
C12_FailureNotCached ==
  [][ /\ (pc = "docs" /\ ev'.op = "list_documents_failed") =>
            /\ docs_cache' = docs_cache
            /\ ~CacheHit(docs_cache', CurrentKey)
            /\ \A s \in Stores :
                 PageStateOf(docs_page', s) = PageStateOf(docs_page, s)
      /\ (pc = "stores" /\ ev'.op = "list_stores_failed") =>
            /\ stores_cache' = stores_cache
            /\ ~CacheHit(stores_cache', API_KEY)
            /\ docs_page' = docs_page
      /\ \A k \in DocKeys :
           (~CacheHit(docs_cache, k) /\ CacheHit(docs_cache', k)) =>
             ev' = EvC("list_documents", TRUE, k, docs_cache'[k], ev_c')
      /\ (~CacheHit(stores_cache, API_KEY) /\ CacheHit(stores_cache', API_KEY))
           => ev'.op = "list_stores" /\ ev'.remote
    ]_vars

\* the fetch of a second page, whose entry had expired, failed
C12_Witness ==
  /\ ev.op = "list_documents_failed"
  /\ ev_a[2] \in Tokens
  /\ ev_a \in DOMAIN docs_cache
  /\ PageState.current_index = 1

\* the fetch of the store list failed
C12_WitnessStores == ev.op = "list_stores_failed" /\ pc = "idle"

\* C13: the poll loop fetches the handle again while it does not report done,
\* returns only on a handle that reports done, and ends (by returning, or by
\* an exception of operations.get) when the vendor comes to report done.
C13_PollUntilDone ==
  /\ [][ pc = "poll" =>
           IF run.done
           THEN ev'.op = "upload_ok" /\ pc' = "upload"
           ELSE \/ pc' = "poll" /\ ev'.op = "operations_get"
                \/ pc' = "upload" /\ ev'.op = "upload_failed" ]_vars
  /\ (pc = "poll") ~> (ev.op \in {"upload_ok", "upload_failed"})
  /\ (pc = "poll" /\ run.done) ~> (ev.op = "upload_ok")

\* the handle was fetched again and now reports done
C13_Witness == pc = "poll" /\ run.done /\ ev.op = "operations_get"

\* the handle was fetched again and still does not report done
C13_WitnessWaiting == pc = "poll" /\ ~run.done /\ ev.op = "operations_get"

\* the loop has no timeout: this holds in SpecUploadFair and not in SpecUpload,
\* where the vendor may answer "not done" for ever
PollLoopAlwaysEnds == (pc = "poll") ~> (pc # "poll")

\* C14: for every store with a page state, tokens[0] is None and
\* 0 <= current_index < len(tokens), and reading tokens[current_index] never
\* fails.
C14_IndexInRange ==
  /\ \A s \in DOMAIN docs_page :
       /\ docs_page[s].page_tokens[1] = None
       /\ 0 <= docs_page[s].current_index
       /\ docs_page[s].current_index < Len(docs_page[s].page_tokens)
  /\ ev.op # "index_error"

\* what does hold: the first token is None
FirstTokenIsNone ==
  \A s \in DOMAIN docs_page : docs_page[s].page_tokens[1] = None

\* C15: every token after the first is not None and differs from the token
\* before it; a token is appended only by an advance from the last entry of
\* the chain, and is then the next token that this run's list_documents
\* returned for that entry; no other step changes a chain, except a reset to
\* the chain of the first page.
C15_TokenChain ==
  /\ [](\A s \in DOMAIN docs_page :
          \A i \in 2..Len(docs_page[s].page_tokens) :
            /\ docs_page[s].page_tokens[i] # None
            /\ docs_page[s].page_tokens[i] # docs_page[s].page_tokens[i - 1])
  /\ [][ \A s \in Stores :
           LET old == PageStateOf(docs_page, s)
               new == PageStateOf(docs_page', s)
           IN \/ new.page_tokens = old.page_tokens
              \/ new.page_tokens = <<None>>
              \/ /\ s = selected_store
                 /\ pc = "buttons"
                 /\ Len(old.page_tokens) <= old.current_index + 1
                 /\ run.next # None
                 /\ new.page_tokens = Append(old.page_tokens, run.next) ]_vars

\* what does hold: a chain changes only by a reset or by the append of an
\* advance, and an advance or a retreat leaves every recorded entry as it is
ChainOnlyGrows ==
  [][ \A s \in Stores :
        LET old == PageStateOf(docs_page, s)
            new == PageStateOf(docs_page', s)
        IN \/ new.page_tokens = old.page_tokens
           \/ new.page_tokens = <<None>>
           \/ /\ s = selected_store
              /\ pc = "buttons"
              /\ Len(old.page_tokens) <= old.current_index + 1
              /\ new.page_tokens = Append(old.page_tokens, run.next) ]_vars

\* C16: when a run has ended, the chat history of every store has even length
\* and alternates user, model, user, model: no user message is left without
\* its model reply.
C16_CompletedExchangesOnly ==
  pc = "idle" =>
    \A s \in DOMAIN chat_history :
      /\ Len(chat_history[s]) % 2 = 0
      /\ \A i \in 1..Len(chat_history[s]) :
           chat_history[s][i].role = IF i % 2 = 1 THEN "user" ELSE "model"

\* what does hold: a history starts with a user message and never holds two
\* model messages in a row
NoReplyWithoutPrompt ==
  \A s \in DOMAIN chat_history :
    \A i \in 1..Len(chat_history[s]) :
      chat_history[s][i].role = "model" =>
        i > 1 /\ chat_history[s][i - 1].role = "user"

\* C17: the contents passed to generate_content by a query are the selected
\* store's history as it was before the prompt, in order, followed by the user
\* message of the prompt: one content per message, with its role and text.
C17_ContentsAreStoreHistory ==
  ev.op \in {"query_ok", "query_failed"} =>
    LET before == ev_a
        prompt == IF ev.op = "query_ok" THEN ev_b.prompt ELSE ev_b
        sent == ev_c
    IN /\ Len(sent) = Len(before) + 1
       /\ \A i \in 1..Len(before) :
            /\ sent[i].role = before[i].role
            /\ sent[i].parts = <<[text |-> before[i].text]>>
       /\ sent[Len(sent)] = [role |-> "user", parts |-> <<[text |-> prompt]>>]

\* a query of a store with one earlier exchange, answered
C17_Witness == ev.op = "query_ok" /\ Len(ev_a) = 2 /\ Len(ev_c) = 3

\* a query of one store while the other store has a history of its own
C17_WitnessOtherStore ==
  /\ ev.op = "query_ok"
  /\ \E s \in Stores \ {selected_store} :
       chat_history[s] # << >> /\ Len(chat_history[s]) >= Len(ev_c)

\* C18: once the upload of a combination has failed, no later run issues a
\* remote upload call for it as long as the user has not changed the files of
\* the uploader.
C18_NoRetryWithoutUploadAction ==
  pc = "poll" => Combo \notin hist.failed

\* what does hold: a run uploads again exactly the files the uploader still
\* holds and the session has not marked as processed
RetryOnlyOfUnmarked ==
  pc \in {"stage", "submit", "poll"} =>
    FileKey(selected_store, File) \notin uploaded_files

\* C19 as stated: a successful upload into a store leaves the page state of
\* every other store as it was.
C19_OtherStoresKeepPageState ==
  ev.op = "upload_ok" =>
    \A s \in Stores \ {selected_store} :
      PageStateOf(docs_page, s) = PageStateOf(ev_c.others, s)

\* C19 as amended: a successful upload deletes the page state of every store
\* of the session, so that the next read of any store returns the page state
\* of the first page.
C19_UploadResetsEveryStore ==
  ev.op = "upload_ok" =>
    /\ docs_page = EmptyDict
    /\ \A s \in Stores : PageStateOf(docs_page, s) = InitPageState

\* an upload into one store succeeded while another store was on its second
\* page
C19_Witness ==
  /\ ev.op = "upload_ok"
  /\ \E s \in DOMAIN ev_c.others :
       /\ s # selected_store
       /\ ev_c.others[s].current_index = 1
       /\ Len(ev_c.others[s].page_tokens) = 2

\* C20: with a second session sharing the cache, no document page fetched
\* before a mutation of its store is in the cache after the invalidation that
\* followed the mutation, and none is served from the cache.
C20_InvalidationRaceSafe ==
  /\ \A k \in DOMAIN docs_cache : ~docs_cache[k].stale
  /\ (ev.op = "list_documents" /\ ~ev.remote) => ~ev_b.stale

\* what does hold: a result fetched before a mutation reaches the cache only
\* through a call that was in flight when the cache was cleared
StaleOnlyByLateStore ==
  [][ \A k \in DOMAIN docs_cache' :
        docs_cache'[k].stale =>
          \/ k \in DOMAIN docs_cache /\ docs_cache[k].stale
          \/ peer.busy /\ peer.key = k /\ peer.entry.stale /\ ~peer'.busy ]_vars

====
